---- MODULE Spec2Model ----
(***************************************************************************)
(* SaddlePointProblem (test_suite/saddle_point_problem.py): the evaluation *)
(* counter, the worst-case search _worst and the metrics built on it.      *)
(*                                                                         *)
(* A concrete problem (a subclass) supplies _call_fct and _fct; their      *)
(* values are inputs of the model, drawn from Vals at every call.  The     *)
(* three optimisers called by _worst are external libraries: each is a     *)
(* loop that calls the objective f_y it was handed and returns the lowest  *)
(* value it saw.  One operation runs at a time (the class is synchronous); *)
(* pc is the position inside the running operation.                        *)
(*                                                                         *)
(* A float ratio n / (d + eps), d >= 0, is the pair <<n, d>>: its sign is  *)
(* the sign of n.  A scalar v is <<v>>, no value is <<>>.                  *)
(***************************************************************************)
EXTENDS Integers, Sequences, FiniteSets

\* ---- bounds of the model
MaxLen == 2      \* the length of an argument vector: 1..MaxLen
MaxVal == 1      \* objective values: -MaxVal..MaxVal
MaxCalls == 2    \* objective calls one optimiser makes in one run: 1..MaxCalls

Coord == {0, 1}
Vals == (0 - MaxVal)..MaxVal
\* The objective's value is an input of the model whatever the point, so of
\* the points handed to the objective only the shape matters: one per length.
Points == {[i \in 1..n |-> 0] : n \in 1..MaxLen}
\* The candidates handed to mse: every coordinate the same.
Candidates == {[i \in 1..n |-> c] : n \in 1..MaxLen, c \in Coord}
\* The counter's cap: one relative_robustness fits into a run.
MaxFevals == 3 * MaxCalls + 1
\* (D_x, D_y) of the instances studied: the spec's toy problem, and one
\* with different dimensions.
Instances == {<<1, 1>>, <<2, 1>>}

VARIABLES
  D_x, D_y, run, num_fevals, x_opt, y_opt,  \* the fields of the instance
  heap,        \* the arrays: the stored optimum and the caller's copy
  held,        \* the array the caller got from a getter ("None": none yet)
  pc,          \* "idle" or the position inside _worst
  x0, y0,      \* arguments of the running relative_robustness / regret
  f_0, f_opt, f_worst,   \* locals of the running or last metric
  best, k,     \* the running optimiser: lowest f_y seen, calls made
  bh_fun, cma_fun, de_fun,   \* ret.fun, res[1], ret.fun in _worst
  op, status, ret,       \* the last operation, how it ended, its value
  is_log, dims_ok, warned,   \* its is_log argument, its arguments' fit, warning
  n_f_y, n_call_fct, n_fct,  \* calls of f_y, _call_fct, _fct it made
  fevals0, run0, opt0    \* counter and run at its start; optimum at Init

fields == <<D_x, D_y, run, num_fevals, x_opt, y_opt>>
locals == <<x0, y0, f_0, f_opt, f_worst, best, k, bh_fun, cma_fun, de_fun>>
event == <<op, status, ret, is_log, dims_ok, warned, n_f_y, n_call_fct, n_fct,
           fevals0, run0>>
vars == <<fields, heap, held, pc, locals, event, opt0>>

Abs(a) == IF a < 0 THEN 0 - a ELSE a
Max(a, b) == IF b > a THEN b ELSE a
Min(a, b) == IF b < a THEN b ELSE a

\* ---- __init__, then the subclass's choice of a known saddle point
Init ==
  /\ \E d \in Instances : D_x = d[1] /\ D_y = d[2]
  /\ run = 0
  /\ num_fevals = 0
  /\ \E known \in BOOLEAN, c \in Coord :
       /\ x_opt = IF known THEN "x_opt" ELSE "None"
       /\ y_opt = IF known THEN "y_opt" ELSE "None"
       /\ heap = [a \in {"x_opt", "y_opt", "copy"} |->
                    IF known /\ a = "x_opt" THEN [i \in 1..D_x |-> c]
                    ELSE IF known /\ a = "y_opt" THEN [i \in 1..D_y |-> c]
                    ELSE <<>>]
  /\ opt0 = <<heap["x_opt"], heap["y_opt"]>>
  /\ held = "None"
  /\ pc = "idle"
  /\ x0 = <<>> /\ y0 = <<>>
  /\ f_0 = 0 /\ f_opt = 0 /\ f_worst = 0
  /\ best = 0 /\ k = 0
  /\ bh_fun = 0 /\ cma_fun = 0 /\ de_fun = 0
  /\ op = "init" /\ status = "ok" /\ ret = <<>>
  /\ is_log = FALSE /\ dims_ok = TRUE /\ warned = FALSE
  /\ n_f_y = 0 /\ n_call_fct = 0 /\ n_fct = 0
  /\ fevals0 = 0 /\ run0 = 0

\* ---- the problem contract (subclass hooks)

\* _call_fct(x, y): a value for a point of the right dimensions; on any
\* other input the subclass's array arithmetic either raises or broadcasts
\* to some value.
call_fct(x, y) ==
  {[raised |-> FALSE, val |-> v] : v \in Vals}
    \cup (IF Len(x) = D_x /\ Len(y) = D_y THEN {}
          ELSE {[raised |-> TRUE, val |-> 0]})

\* _fct(x_opt, y_opt): the raw objective at the stored optimum.
fct == Vals

\* get_unit_x_opt() / get_unit_y_opt(): the stored optimum in unit-cube
\* coordinates (the native space of the modelled problems is the unit cube).
get_unit_x_opt == heap[x_opt]
get_unit_y_opt == heap[y_opt]

\* ---- helpers of the operations

\* evaluate, lines 43-44: the counter after a call that returned.
evaluate_always_counts(log) == num_fevals + 1
evaluate_count(log) == IF log THEN num_fevals + 1 ELSE num_fevals

\* self._x_opt.copy(): a fresh array with the same contents.
copy_alias(a) == [ref |-> a, heap |-> heap]
copy(a) == [ref |-> "copy", heap |-> [heap EXCEPT !["copy"] = heap[a]]]

\* the two asserts on entry of relative_robustness (arguments are 1-d arrays)
valid_dimensions_unchecked(a, b) == TRUE
valid_dimensions(a, b) == D_x = Len(a) /\ D_y = Len(b)

\* assert robustness >= 0
robustness_unasserted(r) == TRUE
robustness_assert(r) == r[1] >= 0

\* max(0, loss) on a ratio; max(0, v) on a scalar
max0_unclamped(r) == r
max0(r) == IF r[1] > 0 THEN r ELSE IF Len(r) = 2 THEN <<0, 0>> ELSE <<0>>

\* the guards on the known saddle point
regret_unknown_unchecked == FALSE
regret_unknown == x_opt = "None" \/ y_opt = "None"

\* f_y = lambda y: - self.evaluate(x0, y): is_log keeps its default
f_y_unlogged == FALSE
f_y_is_log == TRUE

\* f_worst = max(-fun, f_worst)
worst_update_overwrite(fun, worst) == 0 - fun
worst_update(fun, worst) == Max(0 - fun, worst)

\* next_run: self._run += 0
next_run_increment == run + 1
next_run_run == run + 0

\* relative_loss: f_0 = self._call_fct(x0, y0) bypasses evaluate
relative_loss_f_0_logged == num_fevals + 1
relative_loss_f_0_fevals == num_fevals

\* np.mean((u - v) ** 2) as sum / count; arrays of different lengths
\* broadcast only when one of them has length 1
broadcasts(u, v) == Len(u) = Len(v) \/ Len(u) = 1 \/ Len(v) = 1
RECURSIVE sum_sq(_, _, _)
sum_sq(u, v, i) ==
  IF i = 0 THEN 0
  ELSE LET a == IF Len(u) = 1 THEN u[1] ELSE u[i]
           b == IF Len(v) = 1 THEN v[1] ELSE v[i]
       IN (a - b) * (a - b) + sum_sq(u, v, i - 1)
mean_sq(u, v) == <<sum_sq(u, v, Max(Len(u), Len(v))), Max(Len(u), Len(v))>>

\* what an operation that starts and ends in one step records
Atomic(o, s, r, log, fit, c, f) ==
  /\ op' = o /\ status' = s /\ ret' = r
  /\ is_log' = log /\ dims_ok' = fit
  /\ n_f_y' = 0 /\ n_call_fct' = c /\ n_fct' = f
  /\ fevals0' = num_fevals /\ run0' = run
  /\ pc' = "idle"
  /\ x0' = <<>> /\ y0' = <<>> /\ f_worst' = 0 /\ best' = 0 /\ k' = 0
  /\ bh_fun' = 0 /\ cma_fun' = 0 /\ de_fun' = 0
  /\ UNCHANGED <<D_x, D_y, x_opt, y_opt, opt0>>

\* the operation computed no metric: no f_0, no f_opt, no warning
NoMetric == f_0' = 0 /\ f_opt' = 0 /\ warned' = FALSE

\* ---- the operations a driver calls

get_x_opt ==
  /\ pc = "idle"
  /\ IF x_opt = "None"
       THEN /\ Atomic("get_x_opt", "Exception", <<>>, FALSE, TRUE, 0, 0)
            /\ UNCHANGED <<heap, held>>
       ELSE /\ Atomic("get_x_opt", "ok", <<>>, FALSE, TRUE, 0, 0)
            /\ heap' = copy(x_opt).heap
            /\ held' = copy(x_opt).ref
  /\ NoMetric
  /\ UNCHANGED <<run, num_fevals>>

get_y_opt ==
  /\ pc = "idle"
  /\ IF y_opt = "None"
       THEN /\ Atomic("get_y_opt", "Exception", <<>>, FALSE, TRUE, 0, 0)
            /\ UNCHANGED <<heap, held>>
       ELSE /\ Atomic("get_y_opt", "ok", <<>>, FALSE, TRUE, 0, 0)
            /\ heap' = copy(y_opt).heap
            /\ held' = copy(y_opt).ref
  /\ NoMetric
  /\ UNCHANGED <<run, num_fevals>>

\* the caller writes a coordinate of the array a getter gave it
caller_mutates ==
  /\ pc = "idle"
  /\ held # "None"
  /\ \E i \in 1..Len(heap[held]), c \in Coord :
       heap' = [heap EXCEPT ![held][i] = c]
  /\ Atomic("caller_mutates", "ok", <<>>, FALSE, TRUE, 0, 0)
  /\ NoMetric
  /\ UNCHANGED <<run, num_fevals, held>>

evaluate(x, y, log) ==
  /\ pc = "idle"
  /\ log => num_fevals < MaxFevals
  /\ \E r \in call_fct(x, y) :
       IF r.raised
         THEN /\ Atomic("evaluate", "Error", <<>>, log,
                        Len(x) = D_x /\ Len(y) = D_y, 1, 0)
              /\ UNCHANGED num_fevals
         ELSE /\ Atomic("evaluate", "ok", <<r.val>>, log,
                        Len(x) = D_x /\ Len(y) = D_y, 1, 0)
              /\ num_fevals' = evaluate_count(log)
  /\ NoMetric
  /\ UNCHANGED <<run, heap, held>>

relative_loss(a, b) ==
  /\ pc = "idle"
  /\ IF x_opt = "None"
       THEN /\ Atomic("relative_loss", "Exception", <<>>, FALSE,
                      Len(a) = D_x /\ Len(b) = D_y, 0, 0)
            /\ NoMetric
                     /\ UNCHANGED num_fevals
       ELSE \E r \in call_fct(a, b) :
              IF r.raised
                THEN /\ Atomic("relative_loss", "Error", <<>>, FALSE,
                               Len(a) = D_x /\ Len(b) = D_y, 1, 0)
                     /\ NoMetric
                     /\ UNCHANGED num_fevals
                ELSE \E o \in fct :
                       LET loss == <<r.val - o, Abs(o)>> IN
                       /\ f_0' = r.val
                       /\ f_opt' = o
                       /\ warned' = (loss[1] < 0)
                       /\ num_fevals' = relative_loss_f_0_fevals
                       /\ Atomic("relative_loss", "ok", max0(loss), FALSE,
                                 Len(a) = D_x /\ Len(b) = D_y, 1, 1)
  /\ UNCHANGED <<run, heap, held>>

mse(a, b) ==
  /\ pc = "idle"
  /\ IF x_opt = "None" \/ y_opt = "None"
       THEN Atomic("mse", "Exception", <<>>, FALSE,
                   Len(a) = D_x /\ Len(b) = D_y, 0, 0)
       ELSE IF broadcasts(get_unit_x_opt, a) /\ broadcasts(get_unit_y_opt, b)
         THEN Atomic("mse", "ok",
                     mean_sq(get_unit_x_opt, a) \o mean_sq(get_unit_y_opt, b),
                     FALSE, Len(a) = D_x /\ Len(b) = D_y, 0, 0)
         ELSE Atomic("mse", "Error", <<>>, FALSE,
                     Len(a) = D_x /\ Len(b) = D_y, 0, 0)
  /\ NoMetric
  /\ UNCHANGED <<run, num_fevals, heap, held>>

next_run ==
  /\ pc = "idle"
  /\ run' = next_run_run
  /\ num_fevals' = 0
  /\ Atomic("next_run", "ok", <<>>, FALSE, TRUE, 0, 0)
  /\ NoMetric
  /\ UNCHANGED <<heap, held>>

get_run ==
  /\ pc = "idle"
  /\ Atomic("get_run", "ok", <<run>>, FALSE, TRUE, 0, 0)
  /\ NoMetric
  /\ UNCHANGED <<run, num_fevals, heap, held>>

get_num_fevals ==
  /\ pc = "idle"
  /\ Atomic("get_num_fevals", "ok", <<num_fevals>>, FALSE, TRUE, 0, 0)
  /\ NoMetric
  /\ UNCHANGED <<run, num_fevals, heap, held>>

\* ---- relative_robustness, regret and the worst-case search they share

\* what ends a running relative_robustness / regret
Return(s, r) ==
  /\ status' = s /\ ret' = r
  /\ pc' = "idle"
  /\ x0' = <<>> /\ y0' = <<>> /\ best' = 0 /\ k' = 0
  /\ bh_fun' = 0 /\ cma_fun' = 0 /\ de_fun' = 0

\* lines 75-78: the asserts, f_0 = self.evaluate(x0, y0), then _worst begins
relative_robustness(a, b) ==
  /\ pc = "idle"
  /\ num_fevals + 1 + 3 * MaxCalls <= MaxFevals
  /\ IF ~valid_dimensions(a, b)
       THEN /\ Atomic("relative_robustness", "AssertionError", <<>>, TRUE,
                      Len(a) = D_x /\ Len(b) = D_y, 0, 0)
            /\ NoMetric
            /\ UNCHANGED num_fevals
       ELSE \E r \in call_fct(a, b) :
              IF r.raised
                THEN /\ Atomic("relative_robustness", "Error", <<>>, TRUE,
                               Len(a) = D_x /\ Len(b) = D_y, 1, 0)
                     /\ NoMetric
                     /\ UNCHANGED num_fevals
                ELSE /\ op' = "relative_robustness" /\ status' = "running"
                     /\ ret' = <<>> /\ is_log' = TRUE
                     /\ dims_ok' = (Len(a) = D_x /\ Len(b) = D_y)
                     /\ warned' = FALSE
                     /\ n_f_y' = 0 /\ n_call_fct' = 1 /\ n_fct' = 0
                     /\ fevals0' = num_fevals /\ run0' = run
                     /\ num_fevals' = evaluate_count(TRUE)
                     /\ f_0' = r.val /\ f_opt' = 0 /\ f_worst' = 0
                     /\ x0' = a /\ y0' = b
                     /\ pc' = "basinhopping" /\ best' = 0 /\ k' = 0
                     /\ UNCHANGED <<bh_fun, cma_fun, de_fun>>
                     /\ UNCHANGED <<D_x, D_y, x_opt, y_opt, opt0>>
  /\ UNCHANGED <<run, heap, held>>

\* lines 136-139 up to the call of _worst
regret(a, b) ==
  /\ pc = "idle"
  /\ num_fevals + 3 * MaxCalls <= MaxFevals
  /\ IF regret_unknown
       THEN /\ Atomic("regret", "TypeError", <<>>, TRUE,
                      Len(a) = D_x /\ Len(b) = D_y, 0, 0)
            /\ NoMetric
       ELSE /\ op' = "regret" /\ status' = "running"
            /\ ret' = <<>> /\ is_log' = TRUE
            /\ dims_ok' = (Len(a) = D_x /\ Len(b) = D_y)
            /\ warned' = FALSE
            /\ n_f_y' = 0 /\ n_call_fct' = 0 /\ n_fct' = 0
            /\ fevals0' = num_fevals /\ run0' = run
            /\ f_0' = 0 /\ f_opt' = 0 /\ f_worst' = 0
            /\ x0' = a /\ y0' = b
            /\ pc' = "basinhopping" /\ best' = 0 /\ k' = 0
            /\ UNCHANGED <<bh_fun, cma_fun, de_fun>>
            /\ UNCHANGED <<D_x, D_y, x_opt, y_opt, opt0>>
  /\ UNCHANGED <<run, num_fevals, heap, held>>

Strategies == {"basinhopping", "cmaes", "differential_evolution"}

\* the running optimiser calls f_y(y): basin-hopping and CMA-ES search from
\* y0 (points shaped like y0), differential evolution inside the D_y bounds
strategy_calls_f_y(y) ==
  /\ pc \in Strategies
  /\ k < MaxCalls
  /\ Len(y) = IF pc = "differential_evolution" THEN D_y ELSE Len(y0)
  /\ \E r \in call_fct(x0, y) :
       IF r.raised
         THEN /\ Return("Error", <<>>)
              /\ n_f_y' = n_f_y + 1
              /\ n_call_fct' = n_call_fct + 1
              /\ f_worst' = 0 /\ f_0' = 0
              /\ UNCHANGED num_fevals
         ELSE /\ n_f_y' = n_f_y + 1
              /\ n_call_fct' = n_call_fct + 1
              /\ num_fevals' = evaluate_count(f_y_is_log)
              /\ best' = IF k = 0 THEN 0 - r.val ELSE Min(best, 0 - r.val)
              /\ k' = k + 1
              /\ UNCHANGED <<pc, x0, y0, f_0, f_worst, bh_fun, cma_fun,
                             de_fun, status, ret>>
  /\ UNCHANGED <<D_x, D_y, run, x_opt, y_opt, heap, held, opt0, f_opt, op,
                 is_log, dims_ok, warned, n_fct, fevals0, run0>>

\* basin-hopping hands y0 and the D_y bounds to its bounded local minimiser,
\* which refuses a start point that does not fit the bounds
basinhopping_raises ==
  /\ pc = "basinhopping"
  /\ Len(y0) # D_y
  /\ Return("Error", <<>>)
  /\ f_worst' = 0 /\ f_0' = 0
  /\ UNCHANGED <<fields, heap, held, opt0, f_opt, op, is_log, dims_ok,
                 warned, n_f_y, n_call_fct, n_fct, fevals0, run0>>

\* lines 58-59
basinhopping_returns ==
  /\ pc = "basinhopping"
  /\ k >= 1
  /\ bh_fun' = best
  /\ f_worst' = 0 - best
  /\ pc' = "cmaes" /\ best' = 0 /\ k' = 0
  /\ UNCHANGED <<fields, heap, held, opt0, x0, y0, f_0, f_opt, cma_fun,
                 de_fun, event>>

\* lines 61-62
cmaes_returns ==
  /\ pc = "cmaes"
  /\ k >= 1
  /\ cma_fun' = best
  /\ f_worst' = worst_update(best, f_worst)
  /\ pc' = "differential_evolution" /\ best' = 0 /\ k' = 0
  /\ UNCHANGED <<fields, heap, held, opt0, x0, y0, f_0, f_opt, bh_fun,
                 de_fun, event>>

\* lines 65-68
differential_evolution_returns ==
  /\ pc = "differential_evolution"
  /\ k >= 1
  /\ de_fun' = best
  /\ f_worst' = worst_update(best, f_worst)
  /\ pc' = "worst_returned" /\ best' = 0 /\ k' = 0
  /\ UNCHANGED <<fields, heap, held, opt0, x0, y0, f_0, f_opt, bh_fun,
                 cma_fun, event>>

\* lines 80-83
relative_robustness_returns ==
  /\ pc = "worst_returned"
  /\ op = "relative_robustness"
  /\ LET robustness == <<f_worst - f_0, Abs(f_0)>> IN
       IF robustness_assert(robustness)
         THEN Return("ok", robustness)
         ELSE Return("AssertionError", <<>>)
  /\ UNCHANGED <<fields, heap, held, opt0, f_0, f_opt, f_worst, op, is_log,
                 dims_ok, warned, n_f_y, n_call_fct, n_fct, fevals0, run0>>

\* line 139, after _worst returned
regret_returns ==
  /\ pc = "worst_returned"
  /\ op = "regret"
  /\ \E o \in fct :
       /\ f_opt' = o
       /\ Return("ok", max0(<<f_worst - o>>))
  /\ n_fct' = n_fct + 1
  /\ UNCHANGED <<fields, heap, held, opt0, f_0, f_worst, op, is_log,
                 dims_ok, warned, n_f_y, n_call_fct, fevals0, run0>>

Next ==
  \/ get_x_opt
  \/ get_y_opt
  \/ caller_mutates
  \/ \E x \in Points, y \in Points, log \in BOOLEAN : evaluate(x, y, log)
  \/ \E a \in Points, b \in Points : relative_robustness(a, b)
  \/ \E a \in Points, b \in Points : relative_loss(a, b)
  \/ \E a \in Candidates, b \in Candidates : mse(a, b)
  \/ \E a \in Points, b \in Points : regret(a, b)
  \/ \E y \in Points : strategy_calls_f_y(y)
  \/ basinhopping_raises
  \/ basinhopping_returns
  \/ cmaes_returns
  \/ differential_evolution_returns
  \/ relative_robustness_returns
  \/ regret_returns
  \/ next_run
  \/ get_run
  \/ get_num_fevals

Spec == Init /\ [][Next]_vars

\* ---- the claims

Known == x_opt # "None" /\ y_opt # "None"
Searched == status = "running" \/ status = "ok"
             \/ (status = "AssertionError" /\ dims_ok)

\* C1: an evaluate call with is_log false leaves the evaluation counter
\* as it was and one with is_log true adds exactly one to it, whoever calls:
\* after a driver's call that returned the counter is its old value plus one
\* if logged and its old value if not, and throughout a relative_robustness
\* or regret whose evaluate calls all returned, the counter has grown by one
\* per call of the objective made through evaluate.
C1_LoggedCallsCountOnce ==
  /\ (op = "evaluate" /\ status = "ok") =>
        num_fevals = fevals0 + (IF is_log THEN 1 ELSE 0)
  /\ (op = "evaluate" /\ status # "ok") => num_fevals = fevals0
  /\ (op \in {"relative_robustness", "regret"} /\ Searched) =>
        num_fevals = fevals0 + n_call_fct
C1_Witness ==
  op = "evaluate" /\ status = "ok" /\ is_log /\ fevals0 >= 1
    /\ num_fevals = fevals0 + 1

\* C2: relative_robustness never returns a negative value: what it returns
\* is (f_worst - f_0) / (|f_0| + eps) and is >= 0, and when the search's
\* f_worst is below f_0 it ends in an assertion error and returns nothing.
C2_RobustnessNeverNegative ==
  (op = "relative_robustness" /\ pc = "idle") =>
     /\ status = "ok" =>
          (ret = <<f_worst - f_0, Abs(f_0)>> /\ ret[1] >= 0 /\ ret[2] >= 0)
     /\ (dims_ok /\ status # "Error" /\ f_worst < f_0) =>
          (status = "AssertionError" /\ ret = <<>>)
C2_Witness ==
  op = "relative_robustness" /\ pc = "idle" /\ status = "ok" /\ ret[1] > 0

\* C3: with a known saddle point relative_loss returns
\* max(0, (f_0 - f_opt) / (|f_opt| + eps)) and regret returns
\* max(0, f_worst - f_opt): neither is negative, and a negative raw loss is
\* clamped to 0 with a warning and no exception.
C3_LossAndRegretClamped ==
  /\ (op = "relative_loss" /\ status = "ok") =>
        /\ ret[1] >= 0
        /\ ret = IF f_0 - f_opt > 0 THEN <<f_0 - f_opt, Abs(f_opt)>>
                 ELSE <<0, 0>>
        /\ warned = (f_0 - f_opt < 0)
  /\ (op = "relative_loss" /\ Known /\ dims_ok) => status = "ok"
  /\ (op = "regret" /\ status = "ok") =>
        ret = <<Max(0, f_worst - f_opt)>> /\ ret[1] >= 0
C3_Witness ==
  op = "relative_loss" /\ status = "ok" /\ f_0 < f_opt /\ warned
    /\ ret = <<0, 0>>

\* C4: without a known saddle point get_x_opt, get_y_opt, relative_loss,
\* regret and mse end in an error and return nothing, before any call of the
\* objective or of the search: counter and run index are as before the call.
C4_UnknownSolutionFails ==
  (~Known /\ op \in {"get_x_opt", "get_y_opt", "relative_loss", "regret",
                     "mse"}) =>
     /\ status \in {"Exception", "TypeError"}
     /\ pc = "idle" /\ ret = <<>> /\ held = "None"
     /\ n_f_y = 0 /\ n_call_fct = 0 /\ n_fct = 0
     /\ num_fevals = fevals0 /\ run = run0
C4_Witness ==
  ~Known /\ op = "regret" /\ status = "TypeError" /\ num_fevals > 0

\* C5, as the spec states it: evaluate and relative_robustness called with
\* an x or y of the wrong length fail, the objective is not invoked and the
\* counter is unchanged.
C5_Original ==
  (op \in {"evaluate", "relative_robustness"} /\ ~dims_ok) =>
     /\ status \notin {"ok", "running"}
     /\ n_call_fct = 0
     /\ num_fevals = fevals0

\* C5, amended: relative_robustness called with an x0 or y0 of the wrong
\* length fails its assertion before the objective is invoked and leaves the
\* counter unchanged; evaluate checks no dimension: it invokes the objective
\* on what it is given, and counts the call if that returns and is_log is
\* true.
C5_DimensionsCheckedByRobustness ==
  /\ (op = "relative_robustness" /\ ~dims_ok) =>
        /\ status = "AssertionError" /\ pc = "idle" /\ ret = <<>>
        /\ n_call_fct = 0 /\ n_f_y = 0
        /\ num_fevals = fevals0
  /\ (op = "evaluate" /\ ~dims_ok) =>
        /\ n_call_fct = 1
        /\ status = "ok" => num_fevals = fevals0 + (IF is_log THEN 1 ELSE 0)
C5_Witness ==
  op = "relative_robustness" /\ ~dims_ok /\ status = "AssertionError"

\* C6: the stored optimum is the one set at construction in every state,
\* whatever was called and whatever the caller wrote into an array a getter
\* returned; a getter returns a fresh array holding that optimum.
C6_OptimumNeverMutated ==
  Known =>
     /\ heap[x_opt] = opt0[1] /\ heap[y_opt] = opt0[2]
     /\ (op = "get_x_opt" /\ status = "ok") =>
           (held \notin {x_opt, y_opt} /\ heap[held] = opt0[1])
     /\ (op = "get_y_opt" /\ status = "ok") =>
           (held \notin {x_opt, y_opt} /\ heap[held] = opt0[2])
C6_Witness ==
  Known /\ op = "caller_mutates" /\ Len(heap[held]) = D_x
    /\ heap[held] # heap[x_opt]

\* C7: during and after one worst-case search the counter has grown by the
\* number of objective calls the three optimisers made, plus one for f_0 in
\* relative_robustness and plus nothing in regret.
C7_SearchEvaluationsCounted ==
  /\ (op = "relative_robustness" /\ Searched /\ dims_ok) =>
        num_fevals = fevals0 + n_f_y + 1
  /\ (op = "regret" /\ Searched) => num_fevals = fevals0 + n_f_y
C7_Witness ==
  op = "regret" /\ status = "ok" /\ n_f_y > 3 /\ fevals0 > 0

\* C8: the value _worst returns is the largest of the three optimisers'
\* values negated back: at least each of them and equal to one of them; the
\* value after CMA-ES is not below basin-hopping's.
C8_WorstIsMaxOfThree ==
  /\ pc = "cmaes" => f_worst = 0 - bh_fun
  /\ pc = "differential_evolution" =>
        /\ f_worst >= 0 - bh_fun /\ f_worst >= 0 - cma_fun
        /\ f_worst \in {0 - bh_fun, 0 - cma_fun}
  /\ pc = "worst_returned" =>
        /\ f_worst >= 0 - bh_fun /\ f_worst >= 0 - cma_fun
        /\ f_worst >= 0 - de_fun
        /\ f_worst \in {0 - bh_fun, 0 - cma_fun, 0 - de_fun}
C8_Witness ==
  pc = "worst_returned" /\ f_worst = 0 - bh_fun
    /\ f_worst > 0 - cma_fun /\ f_worst > 0 - de_fun

\* C9: the run index is 0 in every state; next_run leaves it so and sets
\* the counter to 0 whatever it was; get_run returns 0.
C9_NextRunResetsCounterOnly ==
  /\ run = 0
  /\ op = "next_run" => (num_fevals = 0 /\ run = run0)
  /\ op = "get_run" => ret = <<0>>
C9_Witness ==
  op = "next_run" /\ fevals0 > 0 /\ num_fevals = 0 /\ run = 0

\* C10: the getters, relative_loss and mse leave counter and run index as
\* they were, whether they succeed or fail; relative_loss calls the objective
\* once without counting; a counter that differs from its value before the
\* last operation was changed by a logged evaluate, relative_robustness,
\* regret or next_run.
C10_ReadsLeaveCounters ==
  /\ op \in {"get_num_fevals", "get_run", "get_x_opt", "get_y_opt",
             "relative_loss", "mse"} =>
        (num_fevals = fevals0 /\ run = run0)
  /\ (op = "get_num_fevals") => ret = <<num_fevals>>
  /\ (op = "relative_loss" /\ status = "ok") => (n_call_fct = 1 /\ n_f_y = 0)
  /\ (num_fevals # fevals0 \/ run # run0) =>
        \/ op = "evaluate" /\ is_log
        \/ op \in {"relative_robustness", "regret", "next_run"}
C10_Witness ==
  op = "relative_loss" /\ status = "ok" /\ n_call_fct = 1 /\ fevals0 > 0
    /\ num_fevals = fevals0

====
